---- MODULE Spec2Model ----
(***************************************************************************)
(* The conversation state machine of src/src/ai-sidebar.svelte: the        *)
(* component's variables, its handlers (onMount, the textarea binding,     *)
(* sendMessage, clearChat, copyAsMarkdown) and the callbacks it hands to   *)
(* the provider adapter (onChunk, onComplete, onError, and the catch of a  *)
(* throwing chat call).  Text is a sequence of characters, so that trim    *)
(* and concatenation are computed and not assumed.                         *)
(***************************************************************************)
EXTENDS Integers, Sequences, FiniteSets, TLC

\* ------------------------------------------------------------------ bounds
MaxSends == 2
MaxChunks == 2

\* ------------------------------------------------------ program constants
\* settings.aiTemperature || 0.7, in tenths
DefaultTemperature == 7
\* settings.aiMaxTokens || 2000
DefaultMaxTokens == 2000

\* --------------------------------------------------------------- the text
Chars == {" ", "a"}

\* The drafts typed: none, blank, plain, and one with blanks on both ends.
Drafts == {<<>>, <<" ">>, <<"a">>, <<"a", "a">>, <<" ", "a", " ">>}

Chunks == {<<c>> : c \in Chars}

RECURSIVE TrimStart(_)
TrimStart(t) == IF t # <<>> /\ Head(t) = " " THEN TrimStart(Tail(t)) ELSE t

RECURSIVE TrimEnd(_)
TrimEnd(t) ==
    IF t # <<>> /\ t[Len(t)] = " " THEN TrimEnd(SubSeq(t, 1, Len(t) - 1)) ELSE t

\* mutant: trimStart in place of trim
Trim_StartOnly(t) == TrimStart(t)

\* String.prototype.trim
Trim(t) == TrimEnd(TrimStart(t))

\* ---------------------------------------------------------------- settings
\* A settings object is a function from the option names it holds to their
\* values; {} holds none.
EmptySettings == [k \in {} |-> 0]

Opt(name, values) == {EmptySettings} \cup {name :> v : v \in values}

\* The sampling options tried: each of aiTemperature and aiMaxTokens is once
\* missing, once 0 and once a positive number.
SamplingChoices ==
    { "aiMaxTokens" :> 0,
      ("aiTemperature" :> 0) @@ ("aiMaxTokens" :> 100),
      "aiTemperature" :> 3 }

SettingsChoices ==
    { ("aiApiKey" :> k) @@ ("aiModel" :> m) @@ p @@ x :
        k \in {"", "sk"}, m \in {"", "gpt"},
        p \in Opt("aiSystemPrompt", {<<>>, <<"a">>}),
        x \in SamplingChoices }

VARIABLES
    messages,          \* let messages: Message[]
    currentInput,      \* let currentInput
    isLoading,         \* let isLoading
    streamingMessage,  \* let streamingMessage
    settings,          \* let settings
    totalTokens,       \* let totalTokens
    inputTokens,       \* let inputTokens
    mountPc,           \* onMount: "loading" until loadSettings resolves
    sends,             \* the accepted sendMessage invocations, in order
    last               \* what the last step did: handler, notification, arguments

vars == <<messages, currentInput, isLoading, streamingMessage, settings,
          totalTokens, inputTokens, mountPc, sends, last>>

\* ---------------------------------------------------------------- helpers
SystemMessage(text) == [role |-> "system", content |-> text]

UserMessage(text) == [role |-> "user", content |-> text]

NoMessage == [role |-> "none", content |-> <<>>]

\* mutant: the reply committed is the streamed buffer, not fullText
AssistantMessage_FromBuffer(fullText) ==
    [role |-> "assistant", content |-> streamingMessage]

AssistantMessage(fullText) == [role |-> "assistant", content |-> fullText]

\* JS truthiness of settings.aiApiKey, settings.aiModel, settings.aiSystemPrompt
HasApiKey == "aiApiKey" \in DOMAIN settings /\ settings["aiApiKey"] # ""

\* mutant: the model is never tested
HasModel_Untested == TRUE

HasModel == "aiModel" \in DOMAIN settings /\ settings["aiModel"] # ""

HasSystemPromptIn(s) ==
    "aiSystemPrompt" \in DOMAIN s /\ s["aiSystemPrompt"] # <<>>

HasSystemPrompt == HasSystemPromptIn(settings)

\* settings.x || d
OrDefault(name, d) ==
    IF name \in DOMAIN settings /\ settings[name] # 0 THEN settings[name] ELSE d

NotSystem(msg) == msg.role # "system"

\* estimateTokens of ./ai-chat: text -> non-negative integer
estimateTokens(text) == Len(text)

RECURSIVE calculateTotalTokens(_)
calculateTotalTokens(msgs) ==
    IF msgs = <<>> THEN 0
    ELSE estimateTokens(Head(msgs).content) + calculateTotalTokens(Tail(msgs))

\* mutant: only the draft's count is recomputed
updateTokenCount_DraftOnly(msgs, input) ==
    /\ totalTokens' = totalTokens
    /\ inputTokens' = estimateTokens(input)

\* updateTokenCount, on the history and the draft given
updateTokenCount(msgs, input) ==
    /\ totalTokens' = calculateTotalTokens(msgs)
    /\ inputTokens' = estimateTokens(input)

InFlight(i) == sends[i].pc = "chat"

Ended(i, how) == [sends EXCEPT ![i] = [pc |-> how, userMessage |-> NoMessage,
                                       delivered |-> <<>>]]

\* ---------------------------------------------------------------- Init
Init ==
    /\ messages = <<>>
    /\ currentInput = <<>>
    /\ isLoading = FALSE
    /\ streamingMessage = <<>>
    /\ settings = EmptySettings
    /\ totalTokens = 0
    /\ inputTokens = 0
    /\ mountPc = "loading"
    /\ sends = <<>>
    /\ last = [op |-> "init", notice |-> "none"]

\* ---------------------------------------------------------------- onMount
\* The history after hydration with the settings loaded.
\* mutant: the prompt is tested for presence only, not for being non-empty
MountedMessages_PromptUntested(s) ==
    IF "aiSystemPrompt" \in DOMAIN s THEN <<SystemMessage(s["aiSystemPrompt"])>>
    ELSE messages

MountedMessages(s) ==
    IF HasSystemPromptIn(s) THEN <<SystemMessage(s["aiSystemPrompt"])>>
    ELSE messages

onMount(s) ==
    /\ mountPc = "loading"
    /\ mountPc' = "done"
    /\ settings' = s
    /\ messages' = MountedMessages(s)
    /\ updateTokenCount(messages', currentInput)
    /\ last' = [op |-> "mount", notice |-> "none"]
    /\ UNCHANGED <<currentInput, isLoading, streamingMessage, sends>>

\* ------------------------------------------------ bind:value and $: block
\* An input event on the bound textarea sets currentInput, and the reactive
\* block runs with it.  The markup disables the textarea and the send button
\* while isLoading; that attribute stops a user's typing, not an input event
\* (nor a call of sendMessage), so the draft is taken to change in any state.
editInput(d) ==
    /\ d # currentInput
    /\ currentInput' = d
    /\ updateTokenCount(messages, d)
    /\ last' = [op |-> "input", notice |-> "none"]
    /\ UNCHANGED <<messages, isLoading, streamingMessage, settings, mountPc,
                   sends>>

\* ------------------------------------------------------------ sendMessage
\* mutant: the isLoading test of the first guard is missing
SendIgnored_NoLoadingTest == Trim(currentInput) = <<>>

\* if (!currentInput.trim() || isLoading) return;
SendIgnored == Trim(currentInput) = <<>> \/ isLoading

sendMessage ==
    \/ /\ SendIgnored
       /\ last' = [op |-> "send", notice |-> "none", accepted |-> FALSE]
       /\ UNCHANGED <<messages, currentInput, isLoading, streamingMessage,
                      settings, totalTokens, inputTokens, mountPc, sends>>
    \/ /\ ~SendIgnored
       /\ ~HasApiKey
       /\ last' = [op |-> "send", notice |-> "errApiKey", accepted |-> FALSE]
       /\ UNCHANGED <<messages, currentInput, isLoading, streamingMessage,
                      settings, totalTokens, inputTokens, mountPc, sends>>
    \/ /\ ~SendIgnored
       /\ HasApiKey
       /\ ~HasModel
       /\ last' = [op |-> "send", notice |-> "errModel", accepted |-> FALSE]
       /\ UNCHANGED <<messages, currentInput, isLoading, streamingMessage,
                      settings, totalTokens, inputTokens, mountPc, sends>>
    \/ /\ ~SendIgnored
       /\ HasApiKey
       /\ HasModel
       /\ Len(sends) < MaxSends
       /\ LET userMessage == UserMessage(Trim(currentInput)) IN
            /\ messages' = Append(messages, userMessage)
            /\ sends' = Append(sends, [pc |-> "scroll",
                                       userMessage |-> userMessage,
                                       delivered |-> <<>>])
       /\ currentInput' = <<>>
       /\ isLoading' = TRUE
       /\ streamingMessage' = <<>>
       \* the flush that tick() awaits runs the $: block (currentInput changed)
       /\ updateTokenCount(messages', currentInput')
       /\ last' = [op |-> "send", notice |-> "none", accepted |-> TRUE]
       /\ UNCHANGED <<settings, mountPc>>

\* The outbound list built after await scrollToBottom().
\* mutant: the system prompt is pushed to the end instead of unshifted
MessagesToSend_SystemLast ==
    LET kept == SelectSeq(messages, NotSystem) IN
    IF HasSystemPrompt
    THEN Append(kept, SystemMessage(settings["aiSystemPrompt"]))
    ELSE kept

MessagesToSend ==
    LET kept == SelectSeq(messages, NotSystem) IN
    IF HasSystemPrompt
    THEN <<SystemMessage(settings["aiSystemPrompt"])>> \o kept
    ELSE kept

\* sendMessage resumes after await scrollToBottom() and calls chat(...)
callChat(i) ==
    /\ sends[i].pc = "scroll"
    /\ sends' = [sends EXCEPT ![i].pc = "chat"]
    /\ last' = [op |-> "chat", notice |-> "none", call |-> i,
                messages |-> MessagesToSend,
                temperature |-> OrDefault("aiTemperature", DefaultTemperature),
                maxTokens |-> OrDefault("aiMaxTokens", DefaultMaxTokens)]
    /\ UNCHANGED <<messages, currentInput, isLoading, streamingMessage, settings,
                   totalTokens, inputTokens, mountPc>>

\* ------------------------------------------------- the adapter's callbacks
onChunk(i, chunk) ==
    /\ InFlight(i)
    /\ Len(sends[i].delivered) < MaxChunks
    /\ streamingMessage' = streamingMessage \o chunk
    /\ sends' = [sends EXCEPT ![i].delivered = @ \o chunk]
    /\ last' = [op |-> "onChunk", notice |-> "none", call |-> i]
    /\ UNCHANGED <<messages, currentInput, isLoading, settings, totalTokens,
                   inputTokens, mountPc>>

\* mutant: the reply replaces the history instead of being appended
CommittedMessages_Replaced(fullText) == <<AssistantMessage(fullText)>>

\* messages = [...messages, assistantMessage]
CommittedMessages(fullText) == Append(messages, AssistantMessage(fullText))

\* isLoading = false of onComplete
LoadingAfterComplete == FALSE

onComplete(i, fullText) ==
    /\ InFlight(i)
    /\ messages' = CommittedMessages(fullText)
    /\ streamingMessage' = <<>>
    /\ isLoading' = LoadingAfterComplete
    /\ updateTokenCount(messages', currentInput)
    /\ sends' = Ended(i, "complete")
    /\ last' = [op |-> "onComplete", notice |-> "none", call |-> i,
                fullText |-> fullText, chunks |-> Len(sends[i].delivered)]
    /\ UNCHANGED <<currentInput, settings, mountPc>>

\* mutant: a failed turn takes its user message back out of the history
MessagesAfterFailure_TurnDropped ==
    IF messages = <<>> THEN <<>> ELSE SubSeq(messages, 1, Len(messages) - 1)

\* onError and the catch block assign nothing to messages
MessagesAfterFailure == messages

\* mutant: onError leaves isLoading as it is
LoadingAfterError_Kept == isLoading

\* isLoading = false of onError
LoadingAfterError == FALSE

\* mutant: onError leaves the buffer as it is
StreamAfterError_Kept == streamingMessage

\* streamingMessage = '' of onError
StreamAfterError == <<>>

onError(i) ==
    /\ InFlight(i)
    /\ isLoading' = LoadingAfterError
    /\ streamingMessage' = StreamAfterError
    /\ messages' = MessagesAfterFailure
    /\ sends' = Ended(i, "error")
    /\ last' = [op |-> "onError", notice |-> "errRequest", call |-> i,
                chunks |-> Len(sends[i].delivered)]
    /\ UNCHANGED <<currentInput, settings, totalTokens, inputTokens, mountPc>>

\* mutant: the catch block leaves isLoading as it is
LoadingAfterCatch_Kept == isLoading

\* isLoading = false of the catch block
LoadingAfterCatch == FALSE

\* streamingMessage = '' of the catch block
StreamAfterCatch == <<>>

\* chat(...) throws or rejects: the catch block
chatThrows(i) ==
    /\ InFlight(i)
    /\ isLoading' = LoadingAfterCatch
    /\ streamingMessage' = StreamAfterCatch
    /\ messages' = MessagesAfterFailure
    /\ sends' = Ended(i, "thrown")
    /\ last' = [op |-> "catch", notice |-> "none", call |-> i,
                chunks |-> Len(sends[i].delivered)]
    /\ UNCHANGED <<currentInput, settings, totalTokens, inputTokens, mountPc>>

\* -------------------------------------------------------------- clearChat
\* mutant: without a system prompt the history is left as it is
ClearedMessages_KeptWithoutPrompt ==
    IF HasSystemPrompt THEN <<SystemMessage(settings["aiSystemPrompt"])>>
    ELSE messages

ClearedMessages ==
    IF HasSystemPrompt THEN <<SystemMessage(settings["aiSystemPrompt"])>>
    ELSE <<>>

clearChat ==
    /\ messages' = ClearedMessages
    /\ streamingMessage' = <<>>
    /\ updateTokenCount(messages', currentInput)
    /\ last' = [op |-> "clear", notice |-> "cleared"]
    /\ UNCHANGED <<currentInput, isLoading, settings, mountPc, sends>>

\* --------------------------------------------------------- copyAsMarkdown
\* the two role markers (their emoji left out of the string)
RoleLabel(msg) ==
    IF msg.role = "user" THEN "**User**" ELSE "**Assistant**"

\* `${role}\n\n${msg.content}\n`
Block(msg) == <<RoleLabel(msg), "\n", "\n">> \o msg.content \o <<"\n">>

Separator == <<"\n", "-", "-", "-", "\n", "\n">>

RECURSIVE Join(_)
Join(blocks) ==
    IF blocks = <<>> THEN <<>>
    ELSE IF Len(blocks) = 1 THEN blocks[1]
    ELSE blocks[1] \o Separator \o Join(Tail(blocks))

\* mutant: the system entries are not filtered out
Markdown_Unfiltered ==
    Join([k \in 1..Len(messages) |-> Block(messages[k])])

Markdown ==
    LET kept == SelectSeq(messages, NotSystem) IN
    Join([k \in 1..Len(kept) |-> Block(kept[k])])

\* The .then and .catch of navigator.clipboard.writeText touch no variable of
\* the component: the write's outcome (ok) shows only in the notification.
\* mutant: a failed clipboard write also drops the streaming buffer
copyAsMarkdown_ClearsOnFailure(ok) ==
    /\ last' = [op |-> "copy", notice |-> IF ok THEN "copied" ELSE "errCopy",
                markdown |-> Markdown]
    /\ streamingMessage' = IF ok THEN streamingMessage ELSE <<>>
    /\ UNCHANGED <<messages, currentInput, isLoading, settings,
                   totalTokens, inputTokens, mountPc, sends>>

copyAsMarkdown(ok) ==
    /\ last' = [op |-> "copy", notice |-> IF ok THEN "copied" ELSE "errCopy",
                markdown |-> Markdown]
    /\ UNCHANGED <<messages, currentInput, isLoading, streamingMessage, settings,
                   totalTokens, inputTokens, mountPc, sends>>

\* ------------------------------------------------------------------- Next
\* The texts a request may complete with: what it streamed (the adapter's
\* contract), or any text of one chunk or none (an adapter that does not
\* stream, or one that breaks the contract).
FullTexts(i) == {sends[i].delivered} \cup Chunks \cup {<<>>}

\* The request ends: exactly one of onComplete, onError or a throw.
Terminate(i) ==
    \/ \E fullText \in FullTexts(i) : onComplete(i, fullText)
    \/ onError(i)
    \/ chatThrows(i)

Next ==
    \/ \E s \in SettingsChoices : onMount(s)
    \/ \E d \in Drafts : editInput(d)
    \/ sendMessage
    \/ \E i \in DOMAIN sends : callChat(i)
    \/ \E i \in DOMAIN sends : \E chunk \in Chunks : onChunk(i, chunk)
    \/ \E i \in DOMAIN sends : \E fullText \in FullTexts(i) : onComplete(i, fullText)
    \/ \E i \in DOMAIN sends : onError(i)
    \/ \E i \in DOMAIN sends : chatThrows(i)
    \/ clearChat
    \/ \E ok \in BOOLEAN : copyAsMarkdown(ok)

Spec == Init /\ [][Next]_vars

\* The adapter ends every request and the awaited tick resolves.
FairSpec ==
    /\ Spec
    /\ WF_vars(\E i \in DOMAIN sends : callChat(i))
    /\ WF_vars(\E i \in DOMAIN sends : Terminate(i))

\* ------------------------------------------------- vocabulary of the claims
\* The conversation state the claims speak of.
conversation == <<messages, currentInput, streamingMessage, isLoading>>

ActiveSends == {i \in DOMAIN sends : sends[i].pc \in {"scroll", "chat"}}

InFlightSends == {i \in DOMAIN sends : sends[i].pc = "chat"}

\* An option that is missing or empty counts as not configured.
Unconfigured(name) == name \notin DOMAIN settings \/ settings[name] = ""

PromptConfigured ==
    "aiSystemPrompt" \in DOMAIN settings /\ Len(settings["aiSystemPrompt"]) > 0

IsPrefix(s, t) == Len(s) <= Len(t) /\ SubSeq(t, 1, Len(s)) = s

WithoutSystem(msgs) == SelectSeq(msgs, LAMBDA m : m.role # "system")

OnlySystem(msgs) == SelectSeq(msgs, LAMBDA m : m.role = "system")

\* sendMessage() would accept the draft d in this state.
SendAccepts(d) ==
    /\ Trim(d) # <<>>
    /\ ~isLoading
    /\ ~Unconfigured("aiApiKey")
    /\ ~Unconfigured("aiModel")

\* ------------------------------------------------------------------- C1
\* C1 as stated: isLoading is true iff a send has been accepted and neither
\* onComplete nor onError has fired for it -- also for a send whose adapter
\* call threw.  The catch block resets isLoading without either callback, so
\* this fails after a throw.
C1_LoadingIffNoCallbackFired ==
    isLoading <=> \E i \in DOMAIN sends : sends[i].pc \notin {"complete", "error"}

\* C1 (amended): isLoading is true iff a send has been accepted and its turn
\* has not ended, where a turn ends by onComplete, by onError or by the catch
\* of an exception thrown by the adapter call.
C1_LoadingIffTurnOpen == isLoading <=> ActiveSends # {}

\* A turn ended by a throw, and a later turn in flight.
C1_Witness ==
    \E i, j \in DOMAIN sends : sends[i].pc = "thrown" /\ sends[j].pc = "chat"

\* ------------------------------------------------------------------- C2
\* C2: sendMessage() while isLoading changes none of history, draft,
\* streamingBuffer, isLoading and starts no turn (so no adapter call); and at
\* most one adapter request is in flight in every reachable state.
C2_SendWhileLoadingIsNoOp ==
    /\ [](Cardinality(InFlightSends) <= 1 /\ Cardinality(ActiveSends) <= 1)
    /\ [][(isLoading /\ last'.op = "send")
            => UNCHANGED <<conversation, sends>>]_vars

\* A send with a draft that has text was ignored while a request that has
\* streamed a chunk is in flight.
C2_Witness ==
    /\ isLoading
    /\ last.op = "send"
    /\ Trim(currentInput) # <<>>
    /\ \E i \in DOMAIN sends : sends[i].pc = "chat" /\ sends[i].delivered # <<>>

\* ------------------------------------------------------------------- C3
\* C3: right after onComplete(full), whatever chunks came before, the last
\* message of the history is an assistant message whose content is full,
\* streamingBuffer is empty and isLoading is false.
C3_CompleteCommitsFullText ==
    last.op = "onComplete" =>
        /\ messages # <<>>
        /\ messages[Len(messages)] =
               [role |-> "assistant", content |-> last.fullText]
        /\ streamingMessage = <<>>
        /\ ~isLoading

\* onComplete after two chunks with a text other than the empty one.
C3_Witness ==
    last.op = "onComplete" /\ last.chunks >= 2 /\ Len(last.fullText) >= 2

\* ------------------------------------------------------------------- C4
\* C4: a turn that fails, by onError or by an exception of the adapter call,
\* leaves isLoading false, streamingBuffer empty and the history as it was
\* just before the failure; and then sendMessage() accepts every draft that
\* is non-empty after trimming.
C4_FailureKeepsHistory ==
    [][last'.op \in {"onError", "catch"} =>
          /\ ~isLoading'
          /\ streamingMessage' = <<>>
          /\ messages' = messages
          /\ \A d \in Drafts : Trim(d) # <<>> => SendAccepts(d)']_vars

\* A throw after a chunk, the failed turn's user message still the last one.
C4_Witness ==
    /\ last.op = "catch"
    /\ last.chunks >= 1
    /\ messages # <<>>
    /\ messages[Len(messages)].role = "user"

\* ------------------------------------------------------------------- C5
\* C5: sendMessage() while the API key or the model is not configured starts
\* no turn (no adapter call) and leaves history, draft, streamingBuffer and
\* isLoading unchanged; when the draft is non-empty after trimming it raises
\* a configuration-error notification.
C5_MissingConfigRejected ==
    [][(last'.op = "send" /\ (Unconfigured("aiApiKey") \/ Unconfigured("aiModel")))
          => /\ UNCHANGED <<conversation, sends>>
             /\ Trim(currentInput) # <<>>
                  => last'.notice \in {"errApiKey", "errModel"}]_vars

\* The model is missing, the key is not, and the send was refused.
C5_Witness ==
    /\ last.op = "send"
    /\ last.notice = "errModel"
    /\ ~Unconfigured("aiApiKey")
    /\ Trim(currentInput) # <<>>

\* ------------------------------------------------------------------- C6
\* C6: right after clearChat(), in whatever state it ran, the history is the
\* single configured system message, or empty when no system prompt is
\* configured, and streamingBuffer is empty.
C6_ClearLeavesSystemOnly ==
    last.op = "clear" =>
        /\ streamingMessage = <<>>
        /\ IF PromptConfigured
           THEN messages = <<[role |-> "system",
                              content |-> settings["aiSystemPrompt"]]>>
           ELSE messages = <<>>

\* The clear ran while a request that has streamed a chunk is in flight.
C6_Witness ==
    /\ last.op = "clear"
    /\ \E i \in DOMAIN sends : sends[i].pc = "chat" /\ sends[i].delivered # <<>>

\* ------------------------------------------------------------------- C7
\* C7: the message list of every adapter call is the configured system prompt,
\* if any, followed by the non-system messages of the history in their order:
\* with a prompt the first element is the system message and it is the only
\* one, without a prompt there is none, and no history message is missing.
C7_OutboundIsPromptThenHistory ==
    last.op = "chat" =>
        /\ WithoutSystem(last.messages) = WithoutSystem(messages)
        /\ IF PromptConfigured
           THEN /\ last.messages # <<>>
                /\ last.messages[1] = [role |-> "system",
                                        content |-> settings["aiSystemPrompt"]]
                /\ Len(OnlySystem(last.messages)) = 1
           ELSE OnlySystem(last.messages) = <<>>

\* The call of a second turn, with a system prompt configured.
C7_Witness ==
    /\ last.op = "chat"
    /\ PromptConfigured
    /\ Len(last.messages) >= 4

\* ------------------------------------------------------------------- C8
\* C8: when the awaited tick resolves and the adapter ends every request,
\* every accepted send is followed by a state with isLoading false, and
\* isLoading is false right after each of the two failure paths.
C8_LoadingEnds ==
    /\ (ActiveSends # {}) ~> ~isLoading
    /\ [](last.op \in {"onError", "catch"} => ~isLoading)

\* A second turn ended with onError.
C8_Witness ==
    /\ last.op = "onError"
    /\ ~isLoading
    /\ last.call >= 2

\* ------------------------------------------------------------------- C9
\* C9: whenever isLoading is false, streamingBuffer is empty.
C9_IdleBufferEmpty == ~isLoading => streamingMessage = <<>>

\* onError after a chunk was streamed.
C9_Witness == ~isLoading /\ last.op = "onError" /\ last.chunks >= 1

\* ------------------------------------------------------------------ C10
\* C10: every step other than clearChat and the hydration at mount keeps the
\* history as a prefix of the new history and adds at most one message: a
\* user message on an accepted send, an assistant message on onComplete;
\* onChunk leaves the history as it is.
C10_HistoryGrowsByAppend ==
    [][last'.op \notin {"clear", "mount"} =>
          /\ IsPrefix(messages, messages')
          /\ Len(messages') <= Len(messages) + 1
          /\ Len(messages') = Len(messages) + 1 =>
                \/ /\ last'.op = "send"
                   /\ messages'[Len(messages')].role = "user"
                \/ /\ last'.op = "onComplete"
                   /\ messages'[Len(messages')].role = "assistant"
          /\ last'.op = "onChunk" => messages' = messages]_vars

\* The reply of a second turn was committed behind three earlier messages.
C10_Witness == last.op = "onComplete" /\ Len(messages) >= 4

\* ------------------------------------------------------------------ C11
Blanks(n) == [k \in 1..n |-> " "]

\* c is d without the blanks at its two ends.
IsTrimOf(c, d) ==
    /\ c # <<>> => c[1] # " " /\ c[Len(c)] # " "
    /\ \E i, j \in 0..Len(d) : d = Blanks(i) \o c \o Blanks(j)

\* C11: an accepted sendMessage() had a draft with text, isLoading false and
\* key and model configured; it appends one user message whose content is the
\* trimmed draft, empties the draft, sets isLoading, empties streamingBuffer,
\* and has not yet called the adapter.  The adapter is called once for it: a
\* call is the step of a send that was waiting, no send waits again, and no
\* turn ends that was not called.
C11_AcceptedSendEffects ==
    /\ [][(last'.op = "send" /\ last'.accepted) =>
            /\ \E k \in DOMAIN currentInput : currentInput[k] # " "
            /\ ~isLoading
            /\ ~Unconfigured("aiApiKey") /\ ~Unconfigured("aiModel")
            /\ Len(messages') = Len(messages) + 1
            /\ SubSeq(messages', 1, Len(messages)) = messages
            /\ messages'[Len(messages')].role = "user"
            /\ IsTrimOf(messages'[Len(messages')].content, currentInput)
            /\ currentInput' = <<>>
            /\ isLoading'
            /\ streamingMessage' = <<>>
            /\ Len(sends') = Len(sends) + 1
            /\ SubSeq(sends', 1, Len(sends)) = sends
            /\ sends'[Len(sends')].pc = "scroll"]_vars
    /\ [][last'.op = "chat" =>
            /\ sends[last'.call].pc = "scroll"
            /\ sends'[last'.call].pc = "chat"
            /\ \A i \in DOMAIN sends : i # last'.call => sends'[i] = sends[i]]_vars
    /\ [][\A i \in DOMAIN sends :
            /\ sends[i].pc # "scroll" => sends'[i].pc # "scroll"
            /\ sends'[i].pc \in {"complete", "error", "thrown"}
                 => sends[i].pc \in {"chat", sends'[i].pc}]_vars

\* A second turn was accepted; the two turns' user messages differ.
C11_Witness ==
    /\ last.op = "send"
    /\ last.accepted
    /\ Len(sends) = 2
    /\ messages[Len(messages)] = [role |-> "user", content |-> <<"a">>]
    /\ \E k \in DOMAIN messages :
          messages[k] = [role |-> "user", content |-> <<"a", "a">>]

\* ------------------------------------------------------------------ C12
\* C12: the temperature and the max-token limit of every adapter call are the
\* configured aiTemperature and aiMaxTokens whenever the option is set, 0
\* included, and the defaults 0.7 and 2000 only when it is not set.
C12_SamplingAsConfigured ==
    last.op = "chat" =>
        /\ last.temperature =
              IF "aiTemperature" \in DOMAIN settings
              THEN settings["aiTemperature"] ELSE DefaultTemperature
        /\ last.maxTokens =
              IF "aiMaxTokens" \in DOMAIN settings
              THEN settings["aiMaxTokens"] ELSE DefaultMaxTokens

\* ------------------------------------------------------------------ C13
\* C13: after mount hydration, an accepted send, onComplete, clearChat and a
\* draft edit -- the steps that change the history or the draft -- and so in
\* every reachable state, the total shown is the estimator's sum over the
\* current history and the input count is the estimator's value for the
\* current draft.
C13_TokenCountsCurrent ==
    /\ totalTokens = calculateTotalTokens(messages)
    /\ inputTokens = estimateTokens(currentInput)

\* A reply was committed while the draft held text.
C13_Witness ==
    /\ last.op = "onComplete"
    /\ totalTokens >= 3
    /\ inputTokens >= 1

\* ------------------------------------------------------------------ C14
\* The export of a history, message by message from its end: a system message
\* adds nothing, any other adds its role marker, a blank line, its content
\* and a line break, behind a rule when a block precedes it.
RECURSIVE ExportOf(_)
ExportOf(msgs) ==
    IF msgs = <<>> THEN <<>>
    ELSE LET m == msgs[Len(msgs)]
             front == ExportOf(SubSeq(msgs, 1, Len(msgs) - 1))
             marker == CASE m.role = "user" -> "**User**"
                         [] m.role = "assistant" -> "**Assistant**"
             block == <<marker, "\n", "\n">> \o m.content \o <<"\n">>
         IN  IF m.role = "system" THEN front
             ELSE IF front = <<>> THEN block
             ELSE front \o <<"\n", "-", "-", "-", "\n", "\n">> \o block

Occurrences(text, token) ==
    Cardinality({k \in DOMAIN text : text[k] = token})

\* C14: what copyAsMarkdown() writes is the export of the non-system messages
\* of the history in their order, one marked block each, joined by the rule;
\* system entries and the streaming buffer are not in it.
C14_ExportIsNonSystemHistory ==
    last.op = "copy" =>
        /\ last.markdown = ExportOf(messages)
        /\ Occurrences(last.markdown, "**User**") + Occurrences(last.markdown, "**Assistant**")
             = Len(WithoutSystem(messages))

\* A copy mid-stream of a history with a system message and three others.
C14_Witness ==
    /\ last.op = "copy"
    /\ streamingMessage # <<>>
    /\ OnlySystem(messages) # <<>>
    /\ Len(WithoutSystem(messages)) >= 3

\* ------------------------------------------------------------------ C15
\* C15: a copyAsMarkdown() step leaves history, draft, streaming buffer and
\* isLoading (and the open requests, the settings and the token counts) as
\* they were, whether the clipboard write succeeds or fails and whether the
\* view is idle or streaming; a failed write shows the error notice only.
C15_CopyLeavesConversation ==
    [][last'.op = "copy" =>
          /\ messages' = messages
          /\ currentInput' = currentInput
          /\ streamingMessage' = streamingMessage
          /\ isLoading' = isLoading
          /\ UNCHANGED <<sends, settings, totalTokens, inputTokens, mountPc>>
          /\ last'.notice \in {"copied", "errCopy"}]_vars

\* A failed copy in the middle of a stream, with a draft being typed.
C15_Witness ==
    /\ last.op = "copy"
    /\ last.notice = "errCopy"
    /\ isLoading
    /\ streamingMessage # <<>>
    /\ currentInput # <<>>
    /\ messages # <<>>

\* ------------------------------------------------------------------ C16
\* C16 as stated: in every adapter call the outbound list ends with the user
\* message that the issuing send appended, also when clearChat() ran between
\* that append and the construction of the list.  The list is built from
\* messages after the awaited tick, so a clear in that window leaves the
\* user message out and this fails.
C16_OutboundEndsWithUserMessage ==
    last.op = "chat" =>
        /\ last.messages # <<>>
        /\ last.messages[Len(last.messages)] = sends[last.call].userMessage

\* ------------------------------------------------------------------ C17
\* C17 as stated: in every reachable history each assistant message comes
\* directly after a user message, so a reply of a turn started before a
\* clearChat() is never appended after it.  clearChat() does not end the
\* open turn, whose onComplete then appends its reply to the cleared
\* history, so this fails.
C17_AssistantFollowsUser ==
    \A k \in DOMAIN messages :
        messages[k].role = "assistant" =>
            k > 1 /\ messages[k - 1].role = "user"

\* ------------------------------------------------------------------ C18
\* C18 as stated: while a request is in flight the streaming buffer is the
\* concatenation, in order, of the chunks delivered for it so far, also
\* after a clearChat() or copyAsMarkdown() mid-stream.  clearChat() empties
\* the buffer and leaves the request running, so after it the buffer holds
\* only the chunks delivered since and this fails.
C18_BufferIsChunksDelivered ==
    \A i \in InFlightSends : streamingMessage = sends[i].delivered

\* ------------------------------------------------------------------ C19
\* C19: until the settings are loaded the history is empty (and no send has
\* been accepted); from then on it holds at most one system message, which
\* is its first element and carries the configured system prompt, and none
\* when no system prompt is configured.
C19_OneSystemMessageFirst ==
    /\ mountPc = "loading" => messages = <<>> /\ sends = <<>>
    /\ mountPc = "done" =>
          /\ Len(OnlySystem(messages)) <= 1
          /\ \A k \in DOMAIN messages :
                messages[k].role = "system" =>
                    /\ k = 1
                    /\ PromptConfigured
                    /\ messages[k].content = settings["aiSystemPrompt"]

\* A completed turn behind the system message of a configured prompt.
C19_Witness ==
    /\ mountPc = "done"
    /\ PromptConfigured
    /\ last.op = "onComplete"
    /\ Len(messages) >= 3
    /\ messages[1] = [role |-> "system", content |-> <<"a">>]

====
